---- MODULE Spec2Model ----
(***************************************************************************)
(* A model of alns/Result.py: the Result object returned by an ALNS run    *)
(* and its chart-building methods.                                         *)
(*                                                                         *)
(* Python objects are records carrying their type, so that None, strings,  *)
(* lists and Statistics objects can be compared with one another.  A dict  *)
(* is the sequence of its items in insertion order.  A matplotlib figure   *)
(* or axes object is the sequence of the calls made on it, in order.       *)
(* Every plotting method is modelled on its default path: no figure or     *)
(* axes is passed in, so each call works on a fresh figure; kwargs are     *)
(* empty.  Text positions are kept doubled (x2 = 2 * x) because the code   *)
(* centres a label at starts + widths / 2, which need not be an integer.   *)
(***************************************************************************)
EXTENDS Integers, Sequences, FiniteSets, TLC

VARIABLES
    ctor_best,        \* the `best` argument given to __init__
    ctor_statistics,  \* the `statistics` argument given to __init__
    self_best,        \* self._best
    self_statistics,  \* self._statistics
    call,             \* the last call made and its arguments
    raised,           \* the exception that call raised, or NoError
    ret,              \* the value that call returned
    reads,            \* how often that call evaluated self.statistics
    failed,           \* whether some call made so far raised
    fig,              \* calls made on the figure of that call
    ax,               \* calls made on the axes of plot_objectives
    d_ax,             \* calls made on the destroy-operator axes
    r_ax              \* calls made on the repair-operator axes

vars == <<ctor_best, ctor_statistics, self_best, self_statistics,
          call, raised, ret, reads, failed, fig, ax, d_ax, r_ax>>

-----------------------------------------------------------------------------
(* Bounds of the model *)

MaxCount == 1       \* largest entry of an outcome-count vector
MaxObjective == 3   \* objective values are 1..MaxObjective
MaxLen == 4         \* longest objectives sequence
MaxLegend == 5      \* longest legend passed by a caller

-----------------------------------------------------------------------------
(* Python values *)

None == [type |-> "NoneType"]

Str(s) == [type |-> "str", value |-> s]

List(items) == [type |-> "list", items |-> items]

NoError == [type |-> "none"]

MissingStatistics ==
    [type |-> "ValueError", msg |-> "No statistics collected during this run."]

LegendNotUnderstood(found) ==
    [type |-> "ValueError",
     msg |-> "Legend not understood. Expected at most 4 items, found {0}.",
     found |-> found]

IndexError == [type |-> "IndexError"]

Min(a, b) == IF a <= b THEN a ELSE b

Max(a, b) == IF a >= b THEN a ELSE b

(* dict.keys() and dict.values(), in insertion order *)
Keys(d) == [i \in 1..Len(d) |-> d[i].key]

Values(d) == [i \in 1..Len(d) |-> d[i].value]

-----------------------------------------------------------------------------
(* Result.best_state and Result.statistics *)

(* A mutant of best_state: the getter hands out the other attribute. *)
best_state_swapped(best, stats) == stats

(* best_state: return self._best *)
best_state(best, stats) == best

(* A mutant of Truthy: a Statistics object with no objectives is falsy, as a
   container would be. *)
TruthyAsContainer(obj) ==
    /\ obj /= None
    /\ obj.type = "Statistics" => Len(obj.objectives) > 0

(* bool(obj) for the objects self._statistics holds: None is falsy, and a
   Statistics object, whose class is a plain data holder, is truthy. *)
Truthy(obj) == obj /= None

(* statistics: raise ValueError if not self._statistics, else return it *)
statistics(stats) ==
    IF ~Truthy(stats)
    THEN [raised |-> MissingStatistics, ret |-> None]
    ELSE [raised |-> NoError, ret |-> stats]

-----------------------------------------------------------------------------
(* plot_objectives *)

(* A mutant of MinimumAccumulate: each element is compared with its
   predecessor only, not with the running minimum. *)
RECURSIVE MinimumPairwise(_)
MinimumPairwise(xs) ==
    IF Len(xs) <= 1 THEN xs
    ELSE Append(MinimumPairwise(SubSeq(xs, 1, Len(xs) - 1)),
                Min(xs[Len(xs) - 1], xs[Len(xs)]))

(* np.minimum.accumulate(xs): out[0] = xs[0], out[i] = min(out[i-1], xs[i]);
   the empty sequence gives the empty array. *)
RECURSIVE MinimumAccumulate(_)
MinimumAccumulate(xs) ==
    IF Len(xs) <= 1 THEN xs
    ELSE LET front == MinimumAccumulate(SubSeq(xs, 1, Len(xs) - 1))
         IN  Append(front, Min(front[Len(front)], xs[Len(xs)]))

(* The result of a method call: the exception, the return value, the number
   of evaluations of self.statistics, and the calls made on each figure and
   axes object. *)
Outcome(e, v, n, f, a, d, r) ==
    [raised |-> e, ret |-> v, reads |-> n, fig |-> f, ax |-> a,
     d_ax |-> d, r_ax |-> r]

plot_objectives(stats, title) ==
    LET title1 == IF title = None
                  THEN Str("Objective value at each iteration")
                  ELSE title
        st == statistics(stats)
    IN  IF st.raised /= NoError
        THEN Outcome(st.raised, None, 1, <<>>, <<>>, <<>>, <<>>)
        ELSE Outcome(NoError, None, 2, <<>>,
                     << [fn |-> "plot", data |-> List(st.ret.objectives)],
                        [fn |-> "plot",
                         data |-> List(MinimumAccumulate(st.ret.objectives))],
                        [fn |-> "set_title", label |-> title1],
                        [fn |-> "set_ylabel", label |-> Str("Objective value")],
                        [fn |-> "set_xlabel", label |-> Str("Iteration (#)")],
                        [fn |-> "legend", labels |-> <<"Current", "Best">>] >>,
                     <<>>, <<>>)

-----------------------------------------------------------------------------
(* plot_operator_weights *)

(* The calls of the inner plot(ax, weights, ax_title): `for w in weights`
   iterates the mapping itself, which in Python yields its keys. *)
plot(weights, ax_title) ==
    [i \in 1..Len(weights) |-> [fn |-> "plot", data |-> Str(Keys(weights)[i])]]
    \o << [fn |-> "set_title", label |-> Str(ax_title)],
          [fn |-> "set_xlabel", label |-> Str("Iteration (#)")],
          [fn |-> "set_ylabel", label |-> Str("Weight")] >>

plot_operator_weights(stats, title) ==
    LET fig1 == << [fn |-> "subplots", nrows |-> 2] >>
        fig2 == IF title = None
                THEN Append(fig1, [fn |-> "suptitle", label |-> title])
                ELSE fig1
        st == statistics(stats)
    IN  IF st.raised /= NoError
        THEN Outcome(st.raised, None, 1, fig2, <<>>, <<>>, <<>>)
        ELSE Outcome(NoError, None, 2, fig2, <<>>,
                     plot(st.ret.destroy_weights, "Destroy operators"),
                     plot(st.ret.repair_weights, "Repair operators"))

-----------------------------------------------------------------------------
(* _plot_op_counts *)

(* Number of outcome types a count vector holds: best, better, accepted,
   rejected. *)
NumOutcomes == 4

(* cumsum along a row *)
RECURSIVE Cumsum(_)
Cumsum(v) ==
    IF Len(v) <= 1 THEN v
    ELSE LET front == Cumsum(SubSeq(v, 1, Len(v) - 1))
         IN  Append(front, front[Len(front)] + v[Len(v)])

(* A mutant of CumulativeCounts: the slice is dropped, so the running sums
   run over all four columns. *)
CumulativeCountsUnsliced(counts, num_types) ==
    [i \in 1..Len(counts) |-> Cumsum(counts[i])]

(* operator_counts[:, :num_types].cumsum(axis=1): a slice past the last column
   stops at the last column. *)
CumulativeCounts(counts, num_types) ==
    [i \in 1..Len(counts) |->
        Cumsum(SubSeq(counts[i], 1, Min(num_types, Len(counts[i]))))]

(* A mutant of XLim: the smallest total instead of the largest. *)
RECURSIVE XLimSmallest(_)
XLimSmallest(cumulative) ==
    LET last == cumulative[Len(cumulative)][Len(cumulative[Len(cumulative)])]
    IN  IF Len(cumulative) = 1 THEN last
        ELSE Min(XLimSmallest(SubSeq(cumulative, 1, Len(cumulative) - 1)), last)

(* cumulative_counts[:, -1].max() *)
RECURSIVE XLim(_)
XLim(cumulative) ==
    LET last == cumulative[Len(cumulative)][Len(cumulative[Len(cumulative)])]
    IN  IF Len(cumulative) = 1 THEN last
        ELSE Max(XLim(SubSeq(cumulative, 1, Len(cumulative) - 1)), last)

(* A mutant of Starts: the subtraction of the widths is forgotten. *)
StartsAtEnd(cumulative, widths, idx) ==
    [i \in 1..Len(widths) |-> cumulative[i][idx + 1]]

(* starts = cumulative_counts[:, idx] - widths *)
Starts(cumulative, widths, idx) ==
    [i \in 1..Len(widths) |-> cumulative[i][idx + 1] - widths[i]]

(* One pass of the loop body for the 0-based type index idx: one barh call
   for all operators, then one text call per operator. *)
Layer(operator_names, counts, cumulative, idx) ==
    LET widths == [i \in 1..Len(counts) |-> counts[i][idx + 1]]
        starts == Starts(cumulative, widths, idx)
    IN  << [fn |-> "barh", y |-> operator_names, width |-> widths,
            left |-> starts] >>
        \o [i \in 1..Len(counts) |->
               [fn |-> "text", x2 |-> 2 * starts[i] + widths[i], y |-> i - 1,
                s |-> ToString(widths[i])]]

(* The loop passes for idx = 0 .. n - 1 *)
RECURSIVE Layers(_, _, _, _)
Layers(operator_names, counts, cumulative, n) ==
    IF n = 0 THEN <<>>
    ELSE Layers(operator_names, counts, cumulative, n - 1)
         \o Layer(operator_names, counts, cumulative, n - 1)

(* _plot_op_counts on a fresh axes object: the calls made on the axes and the
   exception raised.  An empty mapping makes np.array(...) one-dimensional,
   so the two-dimensional index of line 189 raises IndexError; num_types = 0
   leaves no column for cumulative_counts[:, -1] in line 191; num_types above
   the number of columns runs out of columns in line 194, after the passes
   for the existing columns. *)
plot_op_counts(operator_counts, title, num_types) ==
    LET operator_names == Keys(operator_counts)
        counts == Values(operator_counts)
        cumulative == CumulativeCounts(counts, num_types)
        xlim == << [fn |-> "set_xlim", right |-> XLim(cumulative)] >>
    IN  IF Len(counts) = 0 THEN [ax |-> <<>>, raised |-> IndexError]
        ELSE IF num_types = 0 THEN [ax |-> <<>>, raised |-> IndexError]
        ELSE IF num_types > NumOutcomes
        THEN [ax |-> xlim \o Layers(operator_names, counts, cumulative,
                                    NumOutcomes),
              raised |-> IndexError]
        ELSE [ax |-> xlim
                     \o Layers(operator_names, counts, cumulative, num_types)
                     \o << [fn |-> "set_title", label |-> Str(title)],
                           [fn |-> "set_xlabel", label |->
                              Str("Iterations where operator resulted in this outcome (#)")],
                           [fn |-> "set_ylabel", label |-> Str("Operator")] >>,
              raised |-> NoError]

-----------------------------------------------------------------------------
(* plot_operator_counts *)

(* Largest number of legend entries plot_operator_counts accepts. *)
MaxLegendItems == 4

DefaultLegend == List(<<"Best", "Better", "Accepted", "Rejected">>)

(* A mutant of LegendTooLong: the comparison is off by one. *)
LegendTooLongOffByOne(legend) == Len(legend.items) > MaxLegendItems + 1

(* len(legend) > 4 *)
LegendTooLong(legend) == Len(legend.items) > MaxLegendItems

plot_operator_counts(stats, title, legend) ==
    LET fig1 == << [fn |-> "subplots", nrows |-> 2],
                   [fn |-> "subplots_adjust"] >>
        fig2 == IF title /= None
                THEN Append(fig1, [fn |-> "suptitle", label |-> title])
                ELSE fig1
        legend1 == IF legend = None THEN DefaultLegend ELSE legend
        num_types == Len(legend1.items)
        st == statistics(stats)
        d == plot_op_counts(st.ret.destroy_operator_counts,
                            "Destroy operators", num_types)
        r == plot_op_counts(st.ret.repair_operator_counts,
                            "Repair operators", num_types)
    IN  IF legend /= None /\ LegendTooLong(legend)
        THEN Outcome(LegendNotUnderstood(Len(legend.items)), None, 0, fig2,
                     <<>>, <<>>, <<>>)
        ELSE IF st.raised /= NoError
        THEN Outcome(st.raised, None, 1, fig2, <<>>, <<>>, <<>>)
        ELSE IF d.raised /= NoError
        THEN Outcome(d.raised, None, 1, fig2, <<>>, d.ax, <<>>)
        ELSE IF r.raised /= NoError
        THEN Outcome(r.raised, None, 2, fig2, <<>>, d.ax, r.ax)
        ELSE Outcome(NoError, None, 2,
                     Append(fig2, [fn |-> "legend", labels |-> legend1.items,
                                   ncol |-> num_types]),
                     <<>>, d.ax, r.ax)

-----------------------------------------------------------------------------
(* Inputs *)

OperatorNames == {"A", "B"}

(* The key orders of a dict over some of the operator names *)
KeySeqs ==
    {ks \in UNION {[1..n -> OperatorNames] : n \in 0..Cardinality(OperatorNames)} :
        \A i, j \in 1..Len(ks) : i /= j => ks[i] /= ks[j]}

CountVectors == [1..NumOutcomes -> 0..MaxCount]

(* Every dict from operator names to count vectors *)
CountMaps ==
    UNION {{[i \in 1..Len(ks) |-> [key |-> ks[i], value |-> f[i]]] :
               f \in [1..Len(ks) -> CountVectors]} : ks \in KeySeqs}

ObjectiveSeqs == UNION {[1..n -> 1..MaxObjective] : n \in 0..MaxLen}

States == {[type |-> "State", id |-> "s1"], [type |-> "State", id |-> "s2"]}

TitleArgs == {None, Str("Operator performance")}

LegendArgs ==
    {None} \cup {List([i \in 1..n |-> ToString(i)]) : n \in 0..MaxLegend}

Statistics(o, dw, rw, dc, rc) ==
    [type |-> "Statistics",
     objectives |-> o,
     destroy_weights |-> dw,
     repair_weights |-> rw,
     destroy_operator_counts |-> dc,
     repair_operator_counts |-> rc]

(* A small family of telemetry objects for the runs that exercise every
   method: each operator has one weight series and one count vector. *)
SampleWeights(name) == IF name = "A" THEN <<1, 2, 2>> ELSE <<3, 1, 1>>

SampleCounts(name) == IF name = "A" THEN <<3, 1, 2, 0>> ELSE <<0, 2, 1, 1>>

SampleWeightMaps ==
    {[i \in 1..Len(ks) |-> [key |-> ks[i], value |-> SampleWeights(ks[i])]] :
        ks \in KeySeqs}

SampleCountMaps ==
    {[i \in 1..Len(ks) |-> [key |-> ks[i], value |-> SampleCounts(ks[i])]] :
        ks \in KeySeqs}

SampleStatistics ==
    {Statistics(o, dw, rw, dc, rc) :
        o \in {<<>>, <<3, 1, 2>>},
        dw \in SampleWeightMaps, rw \in SampleWeightMaps,
        dc \in SampleCountMaps, rc \in SampleCountMaps}

Reverse(v) == [i \in 1..Len(v) |-> v[Len(v) + 1 - i]]

(* The dict with the items of d in reverse order and every vector reversed *)
Mirror(d) ==
    [i \in 1..Len(d) |->
        [key |-> d[Len(d) + 1 - i].key, value |-> Reverse(d[Len(d) + 1 - i].value)]]

-----------------------------------------------------------------------------
(* The state machine *)

(* __init__: self._best = best; self._statistics = statistics *)
ConstructWith(best, stats, c) ==
    /\ ctor_best = best
    /\ ctor_statistics = stats
    /\ self_best = best
    /\ self_statistics = stats
    /\ call = c
    /\ raised = NoError
    /\ ret = None
    /\ reads = 0
    /\ failed = FALSE
    /\ fig = <<>>
    /\ ax = <<>>
    /\ d_ax = <<>>
    /\ r_ax = <<>>

Construct(best, stats) == ConstructWith(best, stats, [op |-> "__init__"])

(* A call c with outcome out; no method assigns an attribute of self. *)
Apply(c, out) ==
    /\ call' = c
    /\ raised' = out.raised
    /\ ret' = out.ret
    /\ reads' = out.reads
    /\ failed' = (failed \/ out.raised /= NoError)
    /\ fig' = out.fig
    /\ ax' = out.ax
    /\ d_ax' = out.d_ax
    /\ r_ax' = out.r_ax
    /\ UNCHANGED <<ctor_best, ctor_statistics, self_best, self_statistics>>

GetBestState ==
    Apply([op |-> "best_state"],
          Outcome(NoError, best_state(self_best, self_statistics), 0,
                  <<>>, <<>>, <<>>, <<>>))

GetStatistics ==
    LET st == statistics(self_statistics)
    IN  Apply([op |-> "statistics"],
              Outcome(st.raised, st.ret, 1, <<>>, <<>>, <<>>, <<>>))

PlotObjectives ==
    \E title \in TitleArgs :
        Apply([op |-> "plot_objectives", title |-> title],
              plot_objectives(self_statistics, title))

PlotOperatorWeights ==
    \E title \in TitleArgs :
        Apply([op |-> "plot_operator_weights", title |-> title],
              plot_operator_weights(self_statistics, title))

PlotOperatorCounts(titles) ==
    \E title \in titles, legend \in LegendArgs :
        Apply([op |-> "plot_operator_counts", title |-> title,
               legend |-> legend],
              plot_operator_counts(self_statistics, title, legend))

(* The static helper called on its own, with the arguments drawn at the start *)
PlotOpCounts ==
    /\ call.op = "arguments"
    /\ LET res == plot_op_counts(call.operator_counts, "Destroy operators",
                                 call.num_types)
       IN  Apply([op |-> "_plot_op_counts",
                  operator_counts |-> call.operator_counts,
                  num_types |-> call.num_types],
                 Outcome(res.raised, None, 0, <<>>, <<>>, res.ax, <<>>))

(* Every method of a Result, on a Result built with or without telemetry *)
Init ==
    \E best \in States, stats \in {None} \cup SampleStatistics :
        Construct(best, stats)

Next ==
    \/ GetBestState
    \/ GetStatistics
    \/ PlotObjectives
    \/ PlotOperatorWeights
    \/ PlotOperatorCounts(TitleArgs)

Spec == Init /\ [][Next]_vars

(* plot_objectives over every objectives sequence *)
InitObjectives ==
    \E best \in States, o \in ObjectiveSeqs :
        Construct(best, Statistics(o, <<>>, <<>>, <<>>, <<>>))

NextObjectives == PlotObjectives

SpecObjectives == InitObjectives /\ [][NextObjectives]_vars

(* plot_operator_counts over every destroy count mapping *)
InitCounts ==
    \E m \in CountMaps :
        Construct([type |-> "State", id |-> "s1"],
                  Statistics(<<>>, <<>>, <<>>, m, Mirror(m)))

NextCounts == PlotOperatorCounts({None})

SpecCounts == InitCounts /\ [][NextCounts]_vars

(* _plot_op_counts over every count mapping and every num_types *)
InitHelper ==
    \E operator_counts \in CountMaps, num_types \in 0..MaxLegend :
        ConstructWith([type |-> "State", id |-> "s1"], None,
                      [op |-> "arguments",
                       operator_counts |-> operator_counts,
                       num_types |-> num_types])

NextHelper == PlotOpCounts

SpecHelper == InitHelper /\ [][NextHelper]_vars

-----------------------------------------------------------------------------
(* Reading the calls made on an axes or figure object *)

Calls(a, f) == SelectSeq(a, LAMBDA c : c.fn = f)

Bars(a) == Calls(a, "barh")

Texts(a) == Calls(a, "text")

(* counts[0] + ... + counts[k - 1] *)
RECURSIVE SumFirst(_, _)
SumFirst(counts, k) ==
    IF k = 0 THEN 0 ELSE SumFirst(counts, k - 1) + counts[k]

MaxOf(S) == CHOOSE x \in S : \A y \in S : y <= x

MinOf(S) == CHOOSE x \in S : \A y \in S : x <= y

(* The dict d with the entries of every vector from index k on set to 0 *)
ZeroTail(d, k) ==
    [i \in 1..Len(d) |->
        [key |-> d[i].key,
         value |-> [j \in 1..Len(d[i].value) |->
                       IF j <= k THEN d[i].value[j] ELSE 0]]]

HelperRan ==
    /\ call.op = "_plot_op_counts"
    /\ call.num_types \in 1..NumOutcomes

-----------------------------------------------------------------------------
(* C1: in _plot_op_counts with num_types in 1..4, the segments emitted for
   every operator start at 0, have non-decreasing starts, end at the running
   sum of the operator's counts (start[k] + width[k] = counts[0] + ... +
   counts[k]), and their widths add up to the sum of the first num_types
   counts. *)
C1_SegmentsStack ==
    HelperRan =>
        LET m == call.operator_counts
            n == call.num_types
            bars == Bars(d_ax)
        IN  \A i \in 1..Len(m) :
                /\ Len(bars) = n
                /\ bars[1].left[i] = 0
                /\ \A k \in 1..(n - 1) : bars[k].left[i] <= bars[k + 1].left[i]
                /\ \A k \in 1..n :
                       bars[k].left[i] + bars[k].width[i]
                           = SumFirst(m[i].value, k)
                /\ SumFirst([k \in 1..n |-> bars[k].width[i]], n)
                       = SumFirst(m[i].value, n)

(* A four-layer chart of two operators, one of them with an empty segment
   in the middle of its bar. *)
C1_Witness ==
    /\ HelperRan
    /\ raised = NoError
    /\ call.num_types = 4
    /\ Len(call.operator_counts) = 2
    /\ call.operator_counts[1].value = <<1, 0, 1, 1>>
    /\ Bars(d_ax)[4].left[1] = 2
    /\ Bars(d_ax)[3].left[1] = 1

(* C9: the axis bound set by _plot_op_counts is the largest, over the
   operators of the mapping, of the sum of the first num_types counts, and
   every segment ends at or before it. *)
C9_AxisBound ==
    (HelperRan /\ Len(call.operator_counts) > 0) =>
        LET m == call.operator_counts
            n == call.num_types
            xlims == Calls(d_ax, "set_xlim")
            bars == Bars(d_ax)
        IN  /\ Len(xlims) = 1
            /\ xlims[1].right
                   = MaxOf({SumFirst(m[i].value, n) : i \in 1..Len(m)})
            /\ \A k \in 1..Len(bars) : \A i \in 1..Len(m) :
                   bars[k].left[i] + bars[k].width[i] <= xlims[1].right

(* Two operators whose totals over the first two types differ, the widest
   one not being the widest over all four types. *)
C9_Witness ==
    /\ HelperRan
    /\ raised = NoError
    /\ call.num_types = 2
    /\ Len(call.operator_counts) = 2
    /\ call.operator_counts[1].value = <<1, 1, 0, 0>>
    /\ call.operator_counts[2].value = <<0, 1, 1, 1>>
    /\ Calls(d_ax, "set_xlim")[1].right = 2

(* C2: plot_objectives plots the objectives unchanged first and their running
   minimum second; the running minimum has the length of the objectives, its
   i-th element is the least of the first i objectives, and it never
   increases.  The empty sequence gives two empty series and no error. *)
C2_RunningBest ==
    (call.op = "plot_objectives" /\ self_statistics /= None) =>
        LET objectives == self_statistics.objectives
            n == Len(objectives)
        IN  /\ raised = NoError
            /\ Len(Calls(ax, "plot")) = 2
            /\ ax[1] = [fn |-> "plot", data |-> List(objectives)]
            /\ ax[2].fn = "plot"
            /\ LET best == ax[2].data.items
               IN  /\ Len(best) = n
                   /\ \A i \in 1..n :
                          best[i] = MinOf({objectives[j] : j \in 1..i})
                   /\ \A i \in 1..(n - 1) : best[i + 1] <= best[i]

(* A sequence that rises after its first minimum and then falls below it *)
C2_Witness ==
    /\ call.op = "plot_objectives"
    /\ raised = NoError
    /\ self_statistics.objectives = <<2, 3, 1, 2>>
    /\ ax[2].data.items = <<2, 2, 1, 1>>

-----------------------------------------------------------------------------
CountsCalled == call.op = "plot_operator_counts"

LegendLength == Len(call.legend.items)

(* C3: plot_operator_counts with a legend of more than 4 labels raises the
   ValueError that names the number of labels, without reading the telemetry,
   entering _plot_op_counts or emitting a bar, a label or the figure legend,
   whether or not the Result holds telemetry. *)
C3_LongLegendRejected ==
    (CountsCalled /\ call.legend /= None /\ LegendLength > 4) =>
        /\ raised = LegendNotUnderstood(LegendLength)
        /\ reads = 0
        /\ d_ax = <<>>
        /\ r_ax = <<>>
        /\ Calls(fig, "legend") = <<>>

(* A five-label legend given to a Result whose telemetry has operators on
   both panels. *)
C3_Witness ==
    /\ CountsCalled
    /\ call.legend /= None
    /\ LegendLength = 5
    /\ raised.type = "ValueError"
    /\ self_statistics /= None
    /\ Len(self_statistics.destroy_operator_counts) = 2
    /\ Len(self_statistics.repair_operator_counts) = 2

(* C4: the statistics accessor raises the missing-statistics ValueError when
   the Result was built without telemetry, returns the telemetry object it
   was built with otherwise, and leaves the Result as it was. *)
C4_StatisticsAccessor ==
    call.op = "statistics" =>
        /\ ctor_statistics = None => raised = MissingStatistics
        /\ ctor_statistics /= None =>
               (raised = NoError /\ ret = ctor_statistics)
        /\ self_best = ctor_best
        /\ self_statistics = ctor_statistics

(* The accessor returning a telemetry object that holds no objectives and no
   operators. *)
C4_Witness ==
    /\ call.op = "statistics"
    /\ raised = NoError
    /\ ret = ctor_statistics
    /\ ret /= None
    /\ ret.objectives = <<>>
    /\ ret.destroy_operator_counts = <<>>

(* C5: the weight chart of each panel holds one series per key of the panel's
   weights mapping, in insertion order, the i-th series being the value
   sequence of the i-th key. *)
C5_WeightSeries ==
    (call.op = "plot_operator_weights" /\ raised = NoError) =>
        /\ Calls(d_ax, "plot")
               = [i \in 1..Len(self_statistics.destroy_weights) |->
                     [fn |-> "plot",
                      data |-> List(self_statistics.destroy_weights[i].value)]]
        /\ Calls(r_ax, "plot")
               = [i \in 1..Len(self_statistics.repair_weights) |->
                     [fn |-> "plot",
                      data |-> List(self_statistics.repair_weights[i].value)]]

(* C6: plot_operator_counts with a legend of k labels, 1 <= k <= 4, behaves
   as it does on the telemetry with every count from index k on set to 0;
   when it returns, the legend has k columns and each panel has k layers,
   each layer holding one segment per operator in mapping order with the
   operator's count of that type as its width. *)
C6_LegendSelectsTypes ==
    (CountsCalled /\ call.legend /= None /\ self_statistics /= None
       /\ LegendLength \in 1..4) =>
        LET k == LegendLength
            dc == self_statistics.destroy_operator_counts
            rc == self_statistics.repair_operator_counts
            zeroed == [self_statistics EXCEPT
                          !.destroy_operator_counts = ZeroTail(dc, k),
                          !.repair_operator_counts = ZeroTail(rc, k)]
            Layered(a, m) ==
                /\ Len(Bars(a)) = k
                /\ Len(Texts(a)) = k * Len(m)
                /\ \A t \in 1..k :
                       /\ Bars(a)[t].y = Keys(m)
                       /\ Bars(a)[t].width = [i \in 1..Len(m) |-> m[i].value[t]]
        IN  /\ Outcome(raised, ret, reads, fig, ax, d_ax, r_ax)
                = plot_operator_counts(zeroed, call.title, call.legend)
            /\ raised = NoError =>
                   /\ Calls(fig, "legend")
                          = << [fn |-> "legend", labels |-> call.legend.items,
                                ncol |-> k] >>
                   /\ Layered(d_ax, dc)
                   /\ Layered(r_ax, rc)

(* A two-label legend on telemetry whose destroy operators have counts
   beyond the second type. *)
C6_Witness ==
    /\ CountsCalled
    /\ call.legend /= None
    /\ LegendLength = 2
    /\ raised = NoError
    /\ Len(self_statistics.destroy_operator_counts) = 2
    /\ self_statistics.destroy_operator_counts[1].value = <<1, 0, 1, 1>>
    /\ self_statistics.destroy_operator_counts[2].value = <<0, 1, 0, 1>>
    /\ Len(Bars(d_ax)) = 2
    /\ Len(Bars(r_ax)) = 2

(* C7: a call of plot_operator_counts that raises has emitted no bar segment
   and no count label on either panel. *)
C7_FailsBeforeEmitting ==
    (CountsCalled /\ raised /= NoError) =>
        /\ Bars(d_ax) = <<>>
        /\ Texts(d_ax) = <<>>
        /\ Bars(r_ax) = <<>>
        /\ Texts(r_ax) = <<>>

(* C8: whatever calls have been made, and whether or not they raised, the
   Result still holds the best state and the telemetry it was built with,
   and best_state returns that best state without raising. *)
C8_Immutable ==
    /\ self_best = ctor_best
    /\ self_statistics = ctor_statistics
    /\ best_state(self_best, self_statistics) = ctor_best
    /\ call.op = "best_state" => (raised = NoError /\ ret = ctor_best)

(* best_state called on a Result with telemetry after an earlier call raised *)
C8_Witness ==
    /\ call.op = "best_state"
    /\ failed
    /\ ret = ctor_best
    /\ self_statistics /= None
    /\ self_statistics = ctor_statistics

(* C10: plot_operator_weights sets the figure title to the title passed, and
   sets none when no title is passed. *)
C10_WeightsTitle ==
    call.op = "plot_operator_weights" =>
        /\ call.title /= None =>
               Calls(fig, "suptitle")
                   = << [fn |-> "suptitle", label |-> call.title] >>
        /\ call.title = None => Calls(fig, "suptitle") = <<>>

====
